---- MODULE Spec2Model ----
(***************************************************************************)
(* Model of the course-catalog pipeline of downloadcatalog.py: save_to_csv,*)
(* deduplicate_crosslisted (with its UnionFind), department_statistics and *)
(* write_answers, as called by main.                                       *)
(*                                                                         *)
(* Text is a sequence of one-character strings.  A CSV file is a record    *)
(* [exists, header, rows]; a row carries the two columns the resolver and  *)
(* the aggregator read, "Course Number" (num) and "Equivalent Courses"     *)
(* (eqv); the other five columns are copied through untouched by the code  *)
(* and are left out.  A DataFrame is the sequence of its rows, whose       *)
(* position is the row's index label.                                      *)
(***************************************************************************)
EXTENDS Integers, Sequences, FiniteSets, TLC

VARIABLES
    pc,               \* position in main / deduplicate_crosslisted
    all_courses,      \* main: the list of scraped course dicts
    catalog_csv,      \* file catalog.csv
    deduplicated_csv, \* file deduplicated.csv
    departments_csv,  \* file departments.csv
    answers_txt,      \* file answers.txt, a sequence of lines
    rerun_csv,        \* outfile of a second resolver call on deduplicated.csv
    pass,             \* 1: the call made by main, 2: the second call
    df,               \* deduplicate_crosslisted: the DataFrame read from infile
    idx,              \* deduplicate_crosslisted: position of df.iterrows()
    eq_list,          \* deduplicate_crosslisted: tokens of the row still to union
    parent,           \* UnionFind.parent
    group_ids,        \* deduplicate_crosslisted: group_ids
    kept,             \* index labels of df_dedup
    op                \* the last UnionFind call and what it returned

vars == <<pc, all_courses, catalog_csv, deduplicated_csv, departments_csv,
          answers_txt, rerun_csv, pass, df, idx, eq_list, parent, group_ids,
          kept, op>>

(***************************************************************************)
(* Bounds                                                                  *)
(***************************************************************************)
MaxRecords == 3

(***************************************************************************)
(* Python and pandas values                                                *)
(***************************************************************************)
\* float('nan'), what read_csv yields for a blank or N/A cell.  Its one
\* element is not a character, so it equals no text.
NaN == <<"NaN">>

IsStr(v) == v # NaN

\* Python's != on two dictionary keys: nan != nan is True.
PyNeq(a, b) == a = NaN \/ b = NaN \/ a # b

Whitespace == {" "}

RECURSIVE LStrip(_)
LStrip(s) == IF s # <<>> /\ Head(s) \in Whitespace THEN LStrip(Tail(s)) ELSE s

RECURSIVE RStrip(_)
RStrip(s) ==
    IF s # <<>> /\ s[Len(s)] \in Whitespace
    THEN RStrip(SubSeq(s, 1, Len(s) - 1))
    ELSE s

\* str.strip()
Strip(s) == RStrip(LStrip(s))

\* str.split(sep) for a one-character sep: always at least one piece
RECURSIVE Split(_, _)
Split(s, sep) ==
    IF \E i \in 1..Len(s) : s[i] = sep
    THEN LET i == CHOOSE j \in 1..Len(s) :
                      s[j] = sep /\ \A k \in 1..(j - 1) : s[k] # sep
         IN  <<SubSeq(s, 1, i - 1)>> \o Split(SubSeq(s, i + 1, Len(s)), sep)
    ELSE <<s>>

NonEmpty(t) == t # <<>>

\* str.split() without argument: the maximal runs of non-whitespace
RECURSIVE Words(_)
Words(s) ==
    LET t == LStrip(s)
    IN  IF t = <<>> THEN <<>>
        ELSE LET n == CHOOSE j \in 1..Len(t) :
                          /\ \A k \in 1..j : t[k] \notin Whitespace
                          /\ (j = Len(t) \/ t[j + 1] \in Whitespace)
             IN  <<SubSeq(t, 1, n)>> \o Words(SubSeq(t, n + 1, Len(t)))

\* the characters the model's texts use, in code-point order
Chars == <<" ", ",", "/", "1", "2", "A", "M", "N", "U", "Z", "k", "n", "o", "w">>

Ord(c) == CHOOSE i \in 1..Len(Chars) : Chars[i] = c

\* Python's < on str: lexicographic by code point
RECURSIVE StrLess(_, _)
StrLess(a, b) ==
    IF b = <<>> THEN FALSE
    ELSE IF a = <<>> THEN TRUE
    ELSE IF Head(a) = Head(b) THEN StrLess(Tail(a), Tail(b))
    ELSE Ord(Head(a)) < Ord(Head(b))

Range(s) == {s[i] : i \in 1..Len(s)}

(***************************************************************************)
(* CSV files                                                               *)
(***************************************************************************)
NoFile == [exists |-> FALSE, header |-> FALSE, rows |-> <<>>]

NA == <<"N", "/", "A">>

\* the cell texts pandas.read_csv turns into NaN that these texts can spell
NaValues == {<<>>, NA}

ReadCell(c) == IF c \in NaValues THEN NaN ELSE c

\* DataFrame.to_csv writes NaN as an empty cell
WriteCell(v) == IF v = NaN THEN <<>> ELSE v

\* pd.DataFrame(data).to_csv(filename, index=False): a frame built from an
\* empty list has no columns, and its file has no header line
SaveToCsvFile(data) ==
    [exists |-> TRUE, header |-> data # <<>>, rows |-> data]

\* df.to_csv(outfile, index=False) of a frame that has its columns
ToCsv(frame) ==
    [exists |-> TRUE, header |-> TRUE,
     rows |-> [i \in 1..Len(frame) |->
                  [num |-> WriteCell(frame[i].num), eqv |-> WriteCell(frame[i].eqv)]]]

\* pd.read_csv raises on a missing file and on a file with no header line
ReadCsvRaises(file) == ~file.exists \/ ~file.header

ReadCsv(file) ==
    [i \in 1..Len(file.rows) |->
        [num |-> ReadCell(file.rows[i].num), eqv |-> ReadCell(file.rows[i].eqv)]]

(***************************************************************************)
(* class UnionFind                                                         *)
(***************************************************************************)
EmptyParent == [k \in {} |-> k]

EnsurePresent(p, x) ==
    IF x \notin DOMAIN p
    THEN [k \in DOMAIN p \cup {x} |-> IF k = x THEN x ELSE p[k]]
    ELSE p

\* find(x) with the keys already entered on the recursion stack: entering a
\* key a second time is a recursion that never returns (RecursionError).
RECURSIVE FindFrom(_, _, _)
FindFrom(p, x, stack) ==
    IF x \in stack
    THEN [raised |-> TRUE, root |-> x, parent |-> p]
    ELSE IF PyNeq(p[x], x)
         THEN LET r == FindFrom(p, p[x], stack \cup {x})
              IN  IF r.raised THEN r
                  ELSE [raised |-> FALSE, root |-> r.root,
                        parent |-> [r.parent EXCEPT ![x] = r.root]]
         ELSE [raised |-> FALSE, root |-> p[x], parent |-> p]

FindOneHop(p, x) == [raised |-> FALSE, root |-> p[x], parent |-> p]

Find(p, x) == FindFrom(p, x, {})

UnionReversed(p, a, b) ==
    LET ra == Find(p, a)
        rb == Find(ra.parent, b)
    IN  IF ra.raised \/ rb.raised THEN [raised |-> TRUE, parent |-> p]
        ELSE IF PyNeq(ra.root, rb.root)
             THEN [raised |-> FALSE,
                   parent |-> [rb.parent EXCEPT ![ra.root] = rb.root]]
             ELSE [raised |-> FALSE, parent |-> rb.parent]

UnionNoRootB(p, a, b) ==
    LET ra == Find(p, a)
        rb == Find(ra.parent, b)
    IN  IF ra.raised \/ rb.raised THEN [raised |-> TRUE, parent |-> p]
        ELSE IF PyNeq(ra.root, rb.root)
             THEN [raised |-> FALSE, parent |-> [rb.parent EXCEPT ![b] = ra.root]]
             ELSE [raised |-> FALSE, parent |-> rb.parent]

UnionDirect(p, a, b) ==
    IF a # b
    THEN [raised |-> FALSE, parent |-> [p EXCEPT ![b] = a]]
    ELSE [raised |-> FALSE, parent |-> p]

Union(p, a, b) ==
    LET ra == Find(p, a)
    IN  IF ra.raised THEN [raised |-> TRUE, parent |-> p]
        ELSE LET rb == Find(ra.parent, b)
             IN  IF rb.raised THEN [raised |-> TRUE, parent |-> p]
                 ELSE IF PyNeq(ra.root, rb.root)
                      THEN [raised |-> FALSE,
                            parent |-> [rb.parent EXCEPT ![rb.root] = ra.root]]
                      ELSE [raised |-> FALSE, parent |-> rb.parent]

NoOp == [name |-> "none", a |-> <<>>, b |-> <<>>, ret |-> <<>>]

(***************************************************************************)
(* deduplicate_crosslisted                                                 *)
(***************************************************************************)
\* [x.strip() for x in eqv.split(',') if x.strip()], taken only when eqv is
\* a str other than 'N/A'
EqListUnstripped(eqv) ==
    IF IsStr(eqv) /\ eqv # NA
    THEN SelectSeq(Split(eqv, ","), NonEmpty)
    ELSE <<>>

EqList(eqv) ==
    IF IsStr(eqv) /\ eqv # NA
    THEN LET pieces   == Split(eqv, ",")
             stripped == [i \in 1..Len(pieces) |-> Strip(pieces[i])]
         IN  SelectSeq(stripped, NonEmpty)
    ELSE <<>>

Indices(n) == [i \in 1..n |-> i]

GroupHeadTwo(ids) ==
    LET Early(i) == Cardinality({j \in 1..(i - 1) : ids[j] = ids[i]}) < 2
    IN  SelectSeq(Indices(Len(ids)), Early)

GroupTail(ids) ==
    LET Last(i) == \A j \in (i + 1)..Len(ids) : ids[j] # ids[i]
    IN  SelectSeq(Indices(Len(ids)), Last)

\* df.groupby('GroupID', sort=False, as_index=False).head(1): the index
\* labels of the first row of every group, in the frame's order
GroupHead(ids) ==
    LET First(i) == \A j \in 1..(i - 1) : ids[j] # ids[i]
    IN  SelectSeq(Indices(Len(ids)), First)

Take(frame, labels) == [i \in 1..Len(labels) |-> frame[labels[i]]]

Infile == IF pass = 1 THEN catalog_csv ELSE deduplicated_csv

Nums(frame) == {frame[i].num : i \in 1..Len(frame)}

\* line 122-123: read the infile, make the UnionFind
DedupRead ==
    /\ pc = "dedup"
    /\ IF ReadCsvRaises(Infile)
       THEN /\ pc' = "raised"
            /\ UNCHANGED <<df, idx, parent>>
       ELSE /\ df' = ReadCsv(Infile)
            /\ idx' = 1
            /\ parent' = EmptyParent
            /\ pc' = "row"
    /\ eq_list' = <<>>
    /\ group_ids' = <<>>
    /\ kept' = <<>>
    /\ op' = NoOp
    /\ UNCHANGED <<all_courses, catalog_csv, deduplicated_csv, departments_csv,
                   answers_txt, rerun_csv, pass>>

\* lines 125-131: the next row of the first loop, up to its token list
Loop1Row ==
    /\ pc = "row"
    /\ idx <= Len(df)
    /\ LET main_num == df[idx].num
           tokens   == EqList(df[idx].eqv)
       IN  /\ parent' = EnsurePresent(parent, main_num)
           /\ op' = [name |-> "ensure_present", a |-> main_num, b |-> main_num,
                     ret |-> <<>>]
           /\ eq_list' = tokens
           /\ IF tokens = <<>>
              THEN pc' = "row" /\ idx' = idx + 1
              ELSE pc' = "eq_ensure" /\ idx' = idx
    /\ UNCHANGED <<all_courses, catalog_csv, deduplicated_csv, departments_csv,
                   answers_txt, rerun_csv, pass, df, group_ids, kept>>

\* line 133
EqEnsure ==
    /\ pc = "eq_ensure"
    /\ LET eq_course == Head(eq_list)
       IN  /\ parent' = EnsurePresent(parent, eq_course)
           /\ op' = [name |-> "ensure_present", a |-> eq_course, b |-> eq_course,
                     ret |-> <<>>]
    /\ pc' = "eq_union"
    /\ UNCHANGED <<all_courses, catalog_csv, deduplicated_csv, departments_csv,
                   answers_txt, rerun_csv, pass, df, idx, eq_list, group_ids, kept>>

\* line 134, and the step to the next token or the next row
EqUnion ==
    /\ pc = "eq_union"
    /\ LET main_num  == df[idx].num
           eq_course == Head(eq_list)
           u         == Union(parent, main_num, eq_course)
       IN  /\ op' = [name |-> "union", a |-> main_num, b |-> eq_course, ret |-> <<>>]
           /\ IF u.raised
              THEN /\ pc' = "raised"
                   /\ UNCHANGED <<parent, eq_list, idx>>
              ELSE /\ parent' = u.parent
                   /\ eq_list' = Tail(eq_list)
                   /\ IF Tail(eq_list) = <<>>
                      THEN pc' = "row" /\ idx' = idx + 1
                      ELSE pc' = "eq_ensure" /\ idx' = idx
    /\ UNCHANGED <<all_courses, catalog_csv, deduplicated_csv, departments_csv,
                   answers_txt, rerun_csv, pass, df, group_ids, kept>>

\* line 137: the first loop is over
Loop1End ==
    /\ pc = "row"
    /\ idx > Len(df)
    /\ pc' = "row2"
    /\ idx' = 1
    /\ group_ids' = <<>>
    /\ UNCHANGED <<all_courses, catalog_csv, deduplicated_csv, departments_csv,
                   answers_txt, rerun_csv, pass, df, eq_list, parent, kept, op>>

\* lines 139-140
Loop2Ensure ==
    /\ pc = "row2"
    /\ idx <= Len(df)
    /\ LET main_num == df[idx].num
       IN  /\ parent' = EnsurePresent(parent, main_num)
           /\ op' = [name |-> "ensure_present", a |-> main_num, b |-> main_num,
                     ret |-> <<>>]
    /\ pc' = "find2"
    /\ UNCHANGED <<all_courses, catalog_csv, deduplicated_csv, departments_csv,
                   answers_txt, rerun_csv, pass, df, idx, eq_list, group_ids, kept>>

\* lines 141-142
Loop2Find ==
    /\ pc = "find2"
    /\ LET main_num == df[idx].num
           f        == Find(parent, main_num)
       IN  /\ op' = [name |-> "find", a |-> main_num, b |-> main_num, ret |-> f.root]
           /\ IF f.raised
              THEN /\ pc' = "raised"
                   /\ UNCHANGED <<parent, group_ids, idx>>
              ELSE /\ parent' = f.parent
                   /\ group_ids' = Append(group_ids, f.root)
                   /\ idx' = idx + 1
                   /\ pc' = "row2"
    /\ UNCHANGED <<all_courses, catalog_csv, deduplicated_csv, departments_csv,
                   answers_txt, rerun_csv, pass, df, eq_list, kept>>

\* lines 144-152: keep the head of every group, write the outfile, return
DedupWrite ==
    /\ pc = "row2"
    /\ idx > Len(df)
    /\ kept' = GroupHead(group_ids)
    /\ IF pass = 1
       THEN /\ deduplicated_csv' = ToCsv(Take(df, kept'))
            /\ pc' = "stats"
            /\ UNCHANGED rerun_csv
       ELSE /\ rerun_csv' = ToCsv(Take(df, kept'))
            /\ pc' = "rerun_done"
            /\ UNCHANGED deduplicated_csv
    /\ UNCHANGED <<all_courses, catalog_csv, departments_csv, answers_txt, pass,
                   df, idx, eq_list, parent, group_ids, op>>

(***************************************************************************)
(* department_statistics                                                   *)
(***************************************************************************)
Unknown == <<"U", "n", "k", "n", "o", "w", "n">>

\* get_dept; num.split()[0] raises IndexError on a str without a word
GetDeptRaises(num) == IsStr(num) /\ Words(num) = <<>>

GetDept(num) == IF IsStr(num) THEN Words(num)[1] ELSE Unknown

\* df.groupby('Department').size().reset_index(name='Course Count'): one row
\* per department, in ascending order of the department text
GroupBySize(col) ==
    LET keys == Range(col)
        n    == Cardinality(keys)
        ord  == CHOOSE s \in [1..n -> keys] :
                    \A i, j \in 1..n : i < j => StrLess(s[i], s[j])
    IN  [i \in 1..n |->
            [Department |-> ord[i],
             Count |-> Cardinality({r \in 1..Len(col) : col[r] = ord[i]})]]

Orders(t) ==
    {[i \in 1..Len(t) |-> t[f[i]]] :
        f \in {g \in [1..Len(t) -> 1..Len(t)] :
                  \A i, j \in 1..Len(t) : i # j => g[i] # g[j]}}

SortValuesAscending(t) ==
    {s \in Orders(t) :
        \A i, j \in 1..Len(s) : i < j => s[i].Count <= s[j].Count}

\* sort_values('Course Count', ascending=False) with the default kind,
\* quicksort, which is not a stable sort: every order of the rows that is
\* descending in the count is a possible result
SortValues(t) ==
    {s \in Orders(t) :
        \A i, j \in 1..Len(s) : i < j => s[i].Count >= s[j].Count}

DeptToCsv(t) == [exists |-> TRUE, header |-> TRUE, rows |-> t]

ReadDeptCsv(file) ==
    [i \in 1..Len(file.rows) |->
        [Department |-> ReadCell(file.rows[i].Department),
         Count |-> file.rows[i].Count]]

(***************************************************************************)
(* main                                                                    *)
(***************************************************************************)
\* line 199: save_to_csv(all_courses, 'catalog.csv')
SaveToCsv ==
    /\ pc = "save"
    /\ catalog_csv' = SaveToCsvFile(all_courses)
    /\ pc' = "dedup"
    /\ UNCHANGED <<all_courses, deduplicated_csv, departments_csv, answers_txt,
                   rerun_csv, pass, df, idx, eq_list, parent, group_ids, kept, op>>

\* line 203: department_statistics('deduplicated.csv', 'departments.csv')
DepartmentStatistics ==
    /\ pc = "stats"
    /\ IF ReadCsvRaises(deduplicated_csv)
          \/ \E i \in 1..Len(deduplicated_csv.rows) :
                 GetDeptRaises(ReadCell(deduplicated_csv.rows[i].num))
       THEN /\ pc' = "raised"
            /\ UNCHANGED departments_csv
       ELSE LET frame == ReadCsv(deduplicated_csv)
                col   == [i \in 1..Len(frame) |-> GetDept(frame[i].num)]
            IN  /\ \E dept_counts \in SortValues(GroupBySize(col)) :
                       departments_csv' = DeptToCsv(dept_counts)
                /\ pc' = "answers"
    /\ UNCHANGED <<all_courses, catalog_csv, deduplicated_csv, answers_txt,
                   rerun_csv, pass, df, idx, eq_list, parent, group_ids, kept, op>>

Line(label, n, dept) == [label |-> label, n |-> n, dept |-> dept]

\* line 205: write_answers(...)
WriteAnswers ==
    /\ pc = "answers"
    /\ IF \/ ReadCsvRaises(catalog_csv)
          \/ ReadCsvRaises(deduplicated_csv)
          \/ ReadCsvRaises(departments_csv)
          \/ Len(departments_csv.rows) = 0
       THEN /\ pc' = "raised"
            /\ UNCHANGED answers_txt
       ELSE LET total_catalog == Len(ReadCsv(catalog_csv))
                total_dedup   == Len(ReadCsv(deduplicated_csv))
                df_dept       == ReadDeptCsv(departments_csv)
                top_dept      == df_dept[1].Department
                top_count     == df_dept[1].Count
            IN  /\ answers_txt' =
                       << Line("Total classes", total_catalog, <<>>),
                          Line("Total unique classes", total_dedup, <<>>),
                          Line("Department with most courses", top_count, top_dept) >>
                /\ pc' = "done"
    /\ UNCHANGED <<all_courses, catalog_csv, deduplicated_csv, departments_csv,
                   rerun_csv, pass, df, idx, eq_list, parent, group_ids, kept, op>>

\* a second call deduplicate_crosslisted('deduplicated.csv', <another outfile>)
Rerun ==
    /\ pc = "done"
    /\ pass = 1
    /\ pass' = 2
    /\ pc' = "dedup"
    /\ UNCHANGED <<all_courses, catalog_csv, deduplicated_csv, departments_csv,
                   answers_txt, rerun_csv, df, idx, eq_list, parent, group_ids,
                   kept, op>>

(***************************************************************************)
(* Inputs                                                                  *)
(***************************************************************************)
A1 == <<"A", " ", "1">>
Z1 == <<"Z", " ", "1">>
Z2 == <<"Z", " ", "2">>
M1 == <<"M", " ", "1">>

\* " Z 2 ,," and ",M 1"
PaddedZ2 == <<" ">> \o Z2 \o <<" ", ",", ",">>

OnlyM1 == <<",">> \o M1

\* course numbers as clean_text leaves them
CourseCells == {A1, Z1, Z2}

\* equivalents cells: the N/A of a block without equivalents, another course,
\* a padded token among stray commas, a course no row carries
EquivCells == {NA, Z1, PaddedZ2, OnlyM1}

Records == [num : CourseCells, eqv : EquivCells]

\* cells of every shape: text, blank, N/A, commas and blanks only
ShapeCourseCells == {A1, <<>>, NA}

ShapeEquivCells == {<<>>, NA, <<" ", ",", " ">>, <<",">> \o A1 \o <<",", " ", ",">>}

ShapeRecords == [num : ShapeCourseCells, eqv : ShapeEquivCells]

Lists(S) == UNION {[1..n -> S] : n \in 0..MaxRecords}

Files ==
    /\ catalog_csv = NoFile
    /\ deduplicated_csv = NoFile
    /\ departments_csv = NoFile
    /\ rerun_csv = NoFile
    /\ answers_txt = <<>>

Locals ==
    /\ pass = 1
    /\ df = <<>>
    /\ idx = 1
    /\ eq_list = <<>>
    /\ parent = EmptyParent
    /\ group_ids = <<>>
    /\ kept = <<>>
    /\ op = NoOp

Init ==
    /\ pc = "save"
    /\ all_courses \in Lists(Records)
    /\ Files
    /\ Locals

InitShapes ==
    /\ pc = "save"
    /\ all_courses \in Lists(ShapeRecords)
    /\ Files
    /\ Locals

Next ==
    \/ SaveToCsv
    \/ DedupRead
    \/ Loop1Row
    \/ EqEnsure
    \/ EqUnion
    \/ Loop1End
    \/ Loop2Ensure
    \/ Loop2Find
    \/ DedupWrite
    \/ DepartmentStatistics
    \/ WriteAnswers
    \/ Rerun

Spec == Init /\ [][Next]_vars

SpecShapes == InitShapes /\ [][Next]_vars

(***************************************************************************)
(* A UnionFind driven by any calls on registered keys                      *)
(***************************************************************************)
UFKeys == {A1, Z1, Z2, M1}

UFEnsurePresent ==
    /\ pc = "uf"
    /\ \E x \in UFKeys :
        /\ parent' = EnsurePresent(parent, x)
        /\ op' = [name |-> "ensure_present", a |-> x, b |-> x, ret |-> <<>>]
    /\ UNCHANGED <<pc, all_courses, catalog_csv, deduplicated_csv,
                   departments_csv, answers_txt, rerun_csv, pass, df, idx,
                   eq_list, group_ids, kept>>

UFUnion ==
    /\ pc = "uf"
    /\ \E a, b \in DOMAIN parent :
        LET u == Union(parent, a, b)
        IN  /\ op' = [name |-> "union", a |-> a, b |-> b, ret |-> <<>>]
            /\ IF u.raised
               THEN pc' = "raised" /\ UNCHANGED parent
               ELSE parent' = u.parent /\ UNCHANGED pc
    /\ UNCHANGED <<all_courses, catalog_csv, deduplicated_csv,
                   departments_csv, answers_txt, rerun_csv, pass, df, idx,
                   eq_list, group_ids, kept>>

UFFind ==
    /\ pc = "uf"
    /\ \E x \in DOMAIN parent :
        LET f == Find(parent, x)
        IN  /\ op' = [name |-> "find", a |-> x, b |-> x, ret |-> f.root]
            /\ IF f.raised
               THEN pc' = "raised" /\ UNCHANGED parent
               ELSE parent' = f.parent /\ UNCHANGED pc
    /\ UNCHANGED <<all_courses, catalog_csv, deduplicated_csv,
                   departments_csv, answers_txt, rerun_csv, pass, df, idx,
                   eq_list, group_ids, kept>>

InitUF ==
    /\ pc = "uf"
    /\ all_courses = <<>>
    /\ Files
    /\ Locals

NextUF == UFEnsurePresent \/ UFUnion \/ UFFind

SpecUF == InitUF /\ [][NextUF]_vars

(***************************************************************************)
(* Properties                                                              *)
(***************************************************************************)
\* the root of k, by following parent pointers without changing them
RECURSIVE Up(_, _, _)
Up(p, k, n) == IF n = 0 \/ p[k] = k THEN k ELSE Up(p, p[k], n - 1)

RootOf(p, k) == Up(p, k, Cardinality(DOMAIN p))

\* the trimmed, non-empty, comma-separated tokens of an equivalents value;
\* a missing value has none
Tokens(eqv) ==
    IF eqv = NaN THEN {}
    ELSE {Strip(t) : t \in Range(Split(eqv, ","))} \ {<<>>}

\* the undirected graph of a frame: each row's course number is joined to
\* every token of its equivalents
Neighbours(frame, S) ==
    S \cup UNION {IF frame[i].num \in S THEN Tokens(frame[i].eqv) ELSE {} :
                     i \in 1..Len(frame)}
      \cup {frame[i].num : i \in {j \in 1..Len(frame) :
                                      Tokens(frame[j].eqv) \cap S # {}}}

RECURSIVE Reach(_, _)
Reach(frame, S) ==
    LET T == Neighbours(frame, S)
    IN  IF T = S THEN S ELSE Reach(frame, T)

\* the resolver call on df has just returned to its caller
ResolverDone == pc \in {"stats", "rerun_done"}

Outfile == IF pass = 1 THEN deduplicated_csv ELSE rerun_csv

Row(n, e) == [num |-> n, eqv |-> e]

\* C1: once the resolver has processed all records, two records have the
\* same root exactly when their course numbers are connected in the graph
\* of course numbers and equivalents tokens.
C1_GroupsAreComponents ==
    ResolverDone =>
        \A i \in 1..Len(df) :
            LET component == Reach(df, {df[i].num})
            IN  \A j \in 1..Len(df) :
                    (group_ids[i] = group_ids[j]) <=> (df[j].num \in component)

\* the chain A -> B, B -> C, C -> none, resolved into one group
C1_Witness ==
    /\ ResolverDone
    /\ pass = 1
    /\ df = <<Row(A1, Z1), Row(Z1, PaddedZ2), Row(Z2, NaN)>>
    /\ group_ids[1] = group_ids[3]

\* C2: the output is the subsequence of the input made of the first record
\* of every group, in the input's order.
C2_FirstSeenPerGroup ==
    ResolverDone =>
        /\ \A k \in 1..(Len(kept) - 1) : kept[k] < kept[k + 1]
        /\ \A i \in 1..Len(df) :
               LET component == Reach(df, {df[i].num})
               IN  (i \in Range(kept)) <=>
                       (\A j \in 1..(i - 1) : df[j].num \notin component)
        /\ Outfile = ToCsv(Take(df, kept))

\* A 1 (eq = Z 1), Z 2, Z 1: the later Z 1 is dropped, A 1 and Z 2 stay in order
C2_Witness ==
    /\ ResolverDone
    /\ pass = 1
    /\ df = <<Row(A1, Z1), Row(Z2, NaN), Row(Z1, NaN)>>
    /\ kept = <<1, 2>>

\* C3: the resolver run on its own output returns that output unchanged.
C3_Idempotent == pc = "rerun_done" => rerun_csv = deduplicated_csv

\* a second run on an output that the first run had shrunk to two records
C3_Witness ==
    /\ pc = "rerun_done"
    /\ Len(deduplicated_csv.rows) = 2
    /\ Len(all_courses) = 3
    /\ Len(rerun_csv.rows) = 2

\* C4: there are at most as many deduplicated records as raw records, and
\* as many exactly when no two records, by position, share a group.
C4_CountConsistency ==
    ResolverDone =>
        /\ Len(Outfile.rows) <= Len(df)
        /\ (Len(Outfile.rows) = Len(df)) <=>
               (\A i, j \in 1..Len(df) : i # j => group_ids[i] # group_ids[j])

\* two rows with the same course number and no equivalents: one is dropped
C4_Witness ==
    /\ ResolverDone
    /\ pass = 1
    /\ df = <<Row(A1, NaN), Row(Z1, NaN), Row(A1, NaN)>>
    /\ Len(Outfile.rows) = 2

\* C5: the resolver raises on no non-empty input, whatever the shape of its
\* course-number and equivalents cells.
C5_NoException == all_courses # <<>> => pc # "raised"

\* C6: on an empty input the pipeline ends with its summary written, not in
\* an error.
C6_EmptyInputHandled == all_courses = <<>> => pc # "raised"

Departments(file) ==
    {GetDept(ReadCell(file.rows[i].num)) : i \in 1..Len(file.rows)}

FirstOccurrence(file, d) ==
    CHOOSE i \in 1..Len(file.rows) :
        /\ GetDept(ReadCell(file.rows[i].num)) = d
        /\ \A j \in 1..(i - 1) : GetDept(ReadCell(file.rows[j].num)) # d

CountOf(file, d) ==
    Cardinality({i \in 1..Len(file.rows) : GetDept(ReadCell(file.rows[i].num)) = d})

DescendingCount(t) ==
    \A i, j \in 1..Len(t) : i < j => t[i].Count >= t[j].Count

\* C7 as claimed: descending count, and departments of equal count in the
\* order of their first occurrence in the deduplicated records.
C7_StableTieBreak ==
    departments_csv.exists =>
        LET t == departments_csv.rows
        IN  /\ DescendingCount(t)
            /\ \A i, j \in 1..Len(t) :
                   (i < j /\ t[i].Count = t[j].Count) =>
                       FirstOccurrence(deduplicated_csv, t[i].Department)
                           < FirstOccurrence(deduplicated_csv, t[j].Department)

\* C7 as amended: the table has one row per department of the deduplicated
\* records, with the number of its records, in descending order of count.
C7_DescendingCount ==
    departments_csv.exists =>
        LET t == departments_csv.rows
        IN  /\ DescendingCount(t)
            /\ {t[i].Department : i \in 1..Len(t)} = Departments(deduplicated_csv)
            /\ Len(t) = Cardinality(Departments(deduplicated_csv))
            /\ \A i \in 1..Len(t) :
                   t[i].Count = CountOf(deduplicated_csv, t[i].Department)

\* two departments of different counts, the smaller one seen first
C7_Witness ==
    /\ departments_csv.exists
    /\ Len(departments_csv.rows) = 2
    /\ departments_csv.rows[1].Count = 2
    /\ departments_csv.rows[2].Count = 1
    /\ GetDept(deduplicated_csv.rows[1].num) = departments_csv.rows[2].Department

\* C8: a course number that only occurs as a token is registered and joined
\* to the rows that name it, which so share a group of which one row is
\* emitted; every emitted row is an input row.
C8_TokenOnlyCourse ==
    ResolverDone =>
        /\ \A i \in 1..Len(df) : \A t \in Tokens(df[i].eqv) :
               /\ t \in DOMAIN parent
               /\ RootOf(parent, t) = RootOf(parent, df[i].num)
        /\ \A i, j \in 1..Len(df) :
               (i # j /\ (Tokens(df[i].eqv) \cap Tokens(df[j].eqv)) \ Nums(df) # {})
                   => /\ group_ids[i] = group_ids[j]
                      /\ ~(i \in Range(kept) /\ j \in Range(kept))
        /\ \A k \in 1..Len(kept) : kept[k] \in 1..Len(df)
        /\ \A r \in 1..Len(Outfile.rows) : ReadCell(Outfile.rows[r].num) \in Nums(df)

\* two rows that name M 1, which no row carries: only the first is emitted
C8_Witness ==
    /\ ResolverDone
    /\ pass = 1
    /\ df = <<Row(A1, OnlyM1), Row(Z1, OnlyM1)>>
    /\ M1 \in DOMAIN parent
    /\ kept = <<1>>

IsForest(p) ==
    \A k \in DOMAIN p :
        /\ p[k] \in DOMAIN p
        /\ LET r == RootOf(p, k) IN p[r] = r

\* C9: under any calls on registered keys the parent map is a forest, and
\* every find returns, with a key that is its own parent.
C9_Forest ==
    /\ pc # "raised"
    /\ IsForest(parent)
    /\ op.name = "find" => (op.ret \in DOMAIN parent /\ parent[op.ret] = op.ret)

\* a find that returned while another key still sits two steps below its root
C9_Witness ==
    /\ op.name = "find"
    /\ \E k \in DOMAIN parent :
           parent[k] # k /\ parent[parent[k]] # parent[k]

SameRoot(p, x, y) == RootOf(p, x) = RootOf(p, y)

\* C10: in a resolver run two keys of one group stay in one group; find and
\* ensure_present change no registered key's root; union(a, b) gives the
\* root of a's group to the members of b's group and changes no other root.
C10_GroupsOnlyMerge ==
    [][ /\ \A x, y \in DOMAIN parent \cap DOMAIN parent' :
               SameRoot(parent, x, y) => SameRoot(parent', x, y)
        /\ (pc \in {"row", "eq_ensure", "row2", "find2"}) =>
               \A k \in DOMAIN parent : RootOf(parent', k) = RootOf(parent, k)
        /\ (pc = "eq_union" /\ pc' # "raised") =>
               \A k \in DOMAIN parent :
                   RootOf(parent', k) =
                       IF SameRoot(parent, k, Head(eq_list))
                       THEN RootOf(parent, df[idx].num)
                       ELSE RootOf(parent, k)
      ]_vars

\* a union has just joined a group of two to the group of the row's course
C10_Witness ==
    /\ pc \in {"row", "eq_ensure"}
    /\ op.name = "union"
    /\ \E k \in DOMAIN parent :
           /\ k \notin {op.a, op.b}
           /\ parent[k] = op.b
           /\ parent[op.b] = op.a
           /\ parent[op.a] = op.a

====
